---- MODULE Spec2Model ----
(***************************************************************************)
(* Conversation / brief core of the real-estate chatbot backend.           *)
(*                                                                         *)
(* The relational store is the shared state (sessions, messages, briefs).  *)
(* A turn (ConversationService.send_message) is a sequence of awaited      *)
(* repository calls; every awaited call is one step, so turns interleave   *)
(* with each other and with the other operations at those points.          *)
(***************************************************************************)
EXTENDS Integers, Sequences, FiniteSets, TLC

\* ----------------------------------------------------------------- bounds
MaxSessions == 2      \* session ids that create() may hand out
MaxCalls    == 2      \* calls that get past their first step (coroutines)
MaxTime     == 2      \* clock ticks
MaxChunks   == 2      \* chunks of a raw message text
MaxTokens   == 2      \* largest tokens argument of increment_token_count
MaxBriefs   == 2      \* brief ids that create() may hand out
MaxTimeout  == 1      \* largest timeout (in ticks) of a created session
MaxKeys     == 2      \* keys of one update_brief / entities argument
MaxNluChunks == 3     \* tokens of a text given to analyze
MaxPiiTokens == 3     \* tokens of a text given to mask_pii

\* ------------------------------------------------------ program constants
max_length    == 1000   \* utils/language.py is_valid_text default
min_length    == 1      \* utils/language.py is_valid_text default
HistoryCount  == 10     \* conversation_service.py get_recent_messages(count=10)
filter_max_length == 10000   \* safety_service.py filter_content length limit
pattern_confidence == 8      \* nlu_service.py confidence = 0.8, in tenths
man_factor == 10000          \* nlu_service.py budget_value *= 10000

\* A nullable column or an optional dict key holds None or Some(v).
None == << >>
Some(v) == << v >>

Sids   == 1..MaxSessions
Calls  == 1..MaxCalls
Bids   == 1..MaxBriefs

SessionStatus == {"active", "completed", "expired", "abandoned"}

\* ------------------------------------------------------------------ texts
\* A text is a sequence of runs <<kind, n>>: n characters of one kind,
\* "sp" a run of spaces, "nl" a run of newlines/tabs, "w" a run of
\* non-whitespace characters.
Chunks == { <<"sp", 1>>, <<"nl", 2>>, <<"w", 1000>> }

RECURSIVE SeqsUpTo(_, _)
SeqsUpTo(S, n) ==
  IF n = 0 THEN { <<>> }
  ELSE LET shorter == SeqsUpTo(S, n - 1)
       IN  shorter \cup { Append(t, x) : t \in shorter, x \in S }

Texts == SeqsUpTo(Chunks, MaxChunks)

IsSpace(ch) == ch[1] \in {"sp", "nl"}

RECURSIVE TextLen(_)
TextLen(t) == IF t = <<>> THEN 0 ELSE Head(t)[2] + TextLen(Tail(t))

RECURSIVE lstrip(_)
lstrip(t) == IF t # <<>> /\ IsSpace(Head(t)) THEN lstrip(Tail(t)) ELSE t

RECURSIVE rstrip(_)
rstrip(t) ==
  IF t # <<>> /\ IsSpace(t[Len(t)]) THEN rstrip(SubSeq(t, 1, Len(t) - 1)) ELSE t

strip(t) == rstrip(lstrip(t))

\* re.sub(r"\s+", " ", text): every maximal whitespace run becomes one space
RECURSIVE collapse(_)
collapse(t) ==
  IF t = <<>> THEN <<>>
  ELSE IF IsSpace(Head(t)) THEN << <<"sp", 1>> >> \o collapse(lstrip(t))
  ELSE << Head(t) >> \o collapse(Tail(t))

normalize_text(t) == IF t = <<>> THEN <<>> ELSE collapse(strip(t))

\* is_valid_text without its upper bound
is_valid_text_unbounded(t) ==
  IF t = <<>> THEN FALSE ELSE min_length <= TextLen(strip(t))

is_valid_text(t) ==
  IF t = <<>> THEN FALSE
  ELSE min_length <= TextLen(strip(t)) /\ TextLen(strip(t)) <= max_length

\* ------------------------------------------------------------------ state
VARIABLES
  sessions,   \* sessions table: id -> row, domain = ids of existing rows
  nextSid,    \* next fresh session id (uuid4 never repeats)
  messages,   \* messages table in created_at order
  briefs,     \* briefs table: id -> row
  nextBid,    \* next fresh brief id
  now,        \* datetime.utcnow()
  pc,         \* per call: position in its coroutine
  call,       \* per call: operation, arguments and locals
  last        \* the operation that ended with the latest step and what it
              \* returned or raised (NoOp: no operation ended)

vars == <<sessions, nextSid, messages, briefs, nextBid, now, pc, call, last>>

NoCall == [op |-> "none", session_id |-> 0, text |-> <<>>, response |-> <<>>,
           read |-> 0, tokens |-> 0, result |-> "none"]

\* an entities dict without keys
NoEntities == [location |-> None, budget |-> None, rooms |-> None,
               area |-> None, pets |-> None]

NoOp == [op |-> "none", id |-> 0, ret |-> "none", count |-> 0, details |-> <<>>,
         entities |-> NoEntities, matching |-> {}, text |-> <<>>,
         intent |-> None, confidence |-> 0, masked |-> <<>>]

Op(op, id, ret) == [NoOp EXCEPT !.op = op, !.id = id, !.ret = ret]

Init ==
  /\ sessions = << >>
  /\ nextSid = 1
  /\ messages = << >>
  /\ briefs = << >>
  /\ nextBid = 1
  /\ now = 0
  /\ pc = [c \in Calls |-> "idle"]
  /\ call = [c \in Calls |-> NoCall]
  /\ last = NoOp

Exists(s) == s \in DOMAIN sessions

Min(a, b) == IF a <= b THEN a ELSE b

Remove(f, k) == [x \in DOMAIN f \ {k} |-> f[x]]

\* a call may start only after the calls before it (the call slots are
\* interchangeable)
MayStart(c) == pc[c] = "idle" /\ \A d \in Calls : d < c => pc[d] # "idle"

\* the coroutine of call c ends (returns or raises) with outcome res
End(c, op, s, res) ==
  /\ pc' = [pc EXCEPT ![c] = "done"]
  /\ call' = [call EXCEPT ![c] = [NoCall EXCEPT !.op = op, !.session_id = s,
                                    !.result = IF res = "ok" THEN "ok" ELSE "error"]]
  /\ last' = Op(op, s, res)

\* a call ends at its first step without having written anything: it leaves
\* no coroutine behind
Return(op, s, res) ==
  /\ UNCHANGED <<pc, call>>
  /\ last' = Op(op, s, res)

\* the coroutine of call c suspends at its next awaited call
Goto(c, label, locals) ==
  /\ pc' = [pc EXCEPT ![c] = label]
  /\ call' = [call EXCEPT ![c] = locals]
  /\ last' = NoOp

\* ------------------------------------------------------ SessionRepository
NewSession(timeout) ==
  [status |-> "active", turn_count |-> 0, token_count |-> 0,
   expires_at |-> now + timeout]

create(timeout) ==
  /\ nextSid <= MaxSessions
  /\ sessions' = (nextSid :> NewSession(timeout)) @@ sessions
  /\ nextSid' = nextSid + 1
  /\ last' = NoOp
  /\ UNCHANGED <<messages, briefs, nextBid, now, pc, call>>

update_status(s, status) ==
  /\ IF Exists(s)
       THEN sessions' = [sessions EXCEPT ![s].status = status]
       ELSE UNCHANGED sessions
  /\ last' = NoOp
  /\ UNCHANGED <<nextSid, messages, briefs, nextBid, now, pc, call>>

BriefsOf(s) == { b \in DOMAIN briefs : briefs[b].session_id = s }

MessagesOf(s) == SelectSeq(messages, LAMBDA m : m.session_id = s)

\* db.delete(session): Session.messages cascades "all, delete-orphan", and
\* messages.session_id is ON DELETE CASCADE.  Session.brief has no delete
\* cascade, so the unit of work sets briefs.session_id of the session's
\* brief to NULL; the column is NOT NULL, the flush raises IntegrityError and
\* nothing is deleted.
delete(s) ==
  /\ IF ~Exists(s)
       THEN /\ UNCHANGED <<sessions, messages>>
            /\ last' = Op("delete", s, "False")
       ELSE IF BriefsOf(s) # {}
       THEN /\ UNCHANGED <<sessions, messages>>
            /\ last' = Op("delete", s, "IntegrityError")
       ELSE /\ sessions' = Remove(sessions, s)
            /\ messages' = SelectSeq(messages, LAMBDA m : m.session_id # s)
            /\ last' = Op("delete", s, "True")
  /\ UNCHANGED <<nextSid, briefs, nextBid, now, pc, call>>

\* get_expired_sessions without its status filter
get_expired_sessions_any_status ==
  { s \in DOMAIN sessions : sessions[s].expires_at < now }

get_expired_sessions ==
  { s \in DOMAIN sessions :
      sessions[s].status = "active" /\ sessions[s].expires_at < now }

cleanup_expired_sessions ==
  /\ sessions' = [s \in DOMAIN sessions |->
                    IF s \in get_expired_sessions
                      THEN [sessions[s] EXCEPT !.status = "expired"]
                      ELSE sessions[s]]
  /\ last' = [Op("cleanup_expired_sessions", 0, "ok") EXCEPT
                !.count = Cardinality(get_expired_sessions)]
  /\ UNCHANGED <<nextSid, messages, briefs, nextBid, now, pc, call>>

\* increment_turn_count: get_by_id (one awaited SELECT), then
\* session.turn_count += 1 and update (one awaited commit)
IncrementTurnRead(c, s, op) ==
  IF Exists(s)
    THEN Goto(c, "turn_write", [call[c] EXCEPT !.op = op, !.session_id = s,
                                  !.read = sessions[s].turn_count])
    ELSE IF pc[c] = "idle" THEN Return(op, s, "ok") ELSE End(c, op, s, "ok")

increment_turn_count_begin(c, s) ==
  /\ MayStart(c)
  /\ IncrementTurnRead(c, s, "increment_turn_count")
  /\ UNCHANGED <<sessions, nextSid, messages, briefs, nextBid, now>>

increment_turn_count_commit(c) ==
  /\ pc[c] = "turn_write"
  /\ LET s == call[c].session_id IN
       IF Exists(s)
         THEN /\ sessions' = [sessions EXCEPT ![s].turn_count = call[c].read + 1]
              /\ End(c, call[c].op, s, "ok")
         ELSE /\ UNCHANGED sessions
              /\ End(c, call[c].op, s, "StaleDataError")
  /\ UNCHANGED <<nextSid, messages, briefs, nextBid, now>>

\* increment_token_count: the same read, += tokens, commit
increment_token_count_begin(c, s, tokens) ==
  /\ MayStart(c)
  /\ IF Exists(s)
       THEN Goto(c, "token_write",
                 [NoCall EXCEPT !.op = "increment_token_count", !.session_id = s,
                                !.read = sessions[s].token_count,
                                !.tokens = tokens])
       ELSE Return("increment_token_count", s, "ok")
  /\ UNCHANGED <<sessions, nextSid, messages, briefs, nextBid, now>>

increment_token_count_commit(c) ==
  /\ pc[c] = "token_write"
  /\ LET s == call[c].session_id IN
       IF Exists(s)
         THEN /\ sessions' = [sessions EXCEPT
                                ![s].token_count = call[c].read + call[c].tokens]
              /\ End(c, "increment_token_count", s, "ok")
         ELSE /\ UNCHANGED sessions
              /\ End(c, "increment_token_count", s, "StaleDataError")
  /\ UNCHANGED <<nextSid, messages, briefs, nextBid, now>>

\* -------------------------------------------------------- BriefRepository
BriefStatus == {"draft", "in_progress", "completed", "submitted"}

Locations == { None, Some(""), Some("Tokyo") }
Budgets   == { None, Some(0), Some(5000) }
Rooms     == { None, Some(""), Some("2LDK") }

\* keyword arguments of create: the typed columns a caller may set
NoFields == [location |-> None, budget_min |-> None, budget_max |-> None,
             rooms |-> None]

BriefKwargs == [location : Locations, budget_min : Budgets,
                budget_max : Budgets, rooms : Rooms]

\* column defaults of models.Brief, overridden by the keyword arguments
NewBrief(s, kwargs) ==
  [session_id |-> s, status |-> "draft",
   location |-> kwargs.location, budget_min |-> kwargs.budget_min,
   budget_max |-> kwargs.budget_max, rooms |-> kwargs.rooms,
   area_min |-> None, area_max |-> None,
   data |-> {}, extracted_entities |-> {},
   completeness_score |-> 0, lead_score |-> None, submitted_at |-> None]

\* create_brief without the unique constraint on briefs.session_id
create_brief_without_unique(s, kwargs) ==
  /\ nextBid <= MaxBriefs
  /\ IF Exists(s)
       THEN /\ briefs' = (nextBid :> NewBrief(s, kwargs)) @@ briefs
            /\ nextBid' = nextBid + 1
            /\ last' = Op("create_brief", nextBid, "ok")
       ELSE /\ UNCHANGED <<briefs, nextBid>>
            /\ last' = Op("create_brief", 0, "IntegrityError")
  /\ UNCHANGED <<sessions, nextSid, messages, now, pc, call>>

\* BriefService.create_brief -> BriefRepository.create: the INSERT fails on
\* the foreign key (no such session) and on unique(session_id)
create_brief(s, kwargs) ==
  /\ nextBid <= MaxBriefs
  /\ IF Exists(s) /\ BriefsOf(s) = {}
       THEN /\ briefs' = (nextBid :> NewBrief(s, kwargs)) @@ briefs
            /\ nextBid' = nextBid + 1
            /\ last' = Op("create_brief", nextBid, "ok")
       ELSE /\ UNCHANGED <<briefs, nextBid>>
            /\ last' = Op("create_brief", 0, "IntegrityError")
  /\ UNCHANGED <<sessions, nextSid, messages, now, pc, call>>

\* Python truthiness of a nullable string / number
TruthyStr(x) == x # None /\ x[1] # ""
TruthyNum(x) == x # None /\ x[1] # 0

\* calculate_completeness counting truthy instead of non-None values
calculate_completeness_truthy(brief) ==
  LET filled == (IF TruthyStr(brief.location) THEN 1 ELSE 0)
              + (IF TruthyNum(brief.budget_min) THEN 1 ELSE 0)
              + (IF TruthyNum(brief.budget_max) THEN 1 ELSE 0)
              + (IF TruthyStr(brief.rooms) THEN 1 ELSE 0)
  IN  (filled * 100) \div 4

calculate_completeness(brief) ==
  LET filled == (IF brief.location # None THEN 1 ELSE 0)
              + (IF brief.budget_min # None THEN 1 ELSE 0)
              + (IF brief.budget_max # None THEN 1 ELSE 0)
              + (IF brief.rooms # None THEN 1 ELSE 0)
  IN  (filled * 100) \div 4

validate_brief(brief) ==
     (IF ~TruthyStr(brief.location) THEN << "Location is required" >> ELSE << >>)
  \o (IF ~TruthyNum(brief.budget_max) /\ ~TruthyNum(brief.budget_min)
        THEN << "Budget is required" >> ELSE << >>)
  \o (IF ~TruthyStr(brief.rooms)
        THEN << "Room configuration is required" >> ELSE << >>)

calculate_lead_score(brief) ==
  LET score == (brief.completeness_score * 4) \div 10
             + (IF TruthyNum(brief.budget_min) /\ TruthyNum(brief.budget_max)
                  THEN 20 ELSE 0)
             + (IF TruthyStr(brief.location) THEN 20 ELSE 0)
             + (IF TruthyStr(brief.rooms) THEN 10 ELSE 0)
             + (IF TruthyNum(brief.area_min) \/ TruthyNum(brief.area_max)
                  THEN 10 ELSE 0)
  IN  Min(score, 100)

\* BriefRepository.update_status applied to a row
WithStatus(brief, status) ==
  IF status = "submitted"
    THEN [brief EXCEPT !.status = status, !.submitted_at = Some(now)]
    ELSE [brief EXCEPT !.status = status]

\* submit_brief that stores the lead score before it validates
submit_brief_scoring_first(b) ==
  /\ IF b \notin DOMAIN briefs
       THEN /\ UNCHANGED briefs
            /\ last' = Op("submit_brief", b, "BriefNotFound")
     ELSE IF validate_brief(briefs[b]) # << >>
       THEN /\ briefs' = [briefs EXCEPT ![b].lead_score =
                                          Some(calculate_lead_score(briefs[b]))]
            /\ last' = [Op("submit_brief", b, "ValidationError") EXCEPT
                          !.details = validate_brief(briefs[b])]
     ELSE /\ briefs' = [briefs EXCEPT ![b] =
                          WithStatus([briefs[b] EXCEPT !.lead_score =
                                        Some(calculate_lead_score(briefs[b]))],
                                     "submitted")]
          /\ last' = Op("submit_brief", b, "ok")
  /\ UNCHANGED <<sessions, nextSid, messages, nextBid, now, pc, call>>

\* BriefService.submit_brief
submit_brief(b) ==
  /\ IF b \notin DOMAIN briefs
       THEN /\ UNCHANGED briefs
            /\ last' = Op("submit_brief", b, "BriefNotFound")
     ELSE IF validate_brief(briefs[b]) # << >>
       THEN /\ UNCHANGED briefs
            /\ last' = [Op("submit_brief", b, "ValidationError") EXCEPT
                          !.details = validate_brief(briefs[b])]
     ELSE /\ briefs' = [briefs EXCEPT ![b] =
                          WithStatus([briefs[b] EXCEPT !.lead_score =
                                        Some(calculate_lead_score(briefs[b]))],
                                     "submitted")]
          /\ last' = Op("submit_brief", b, "ok")
  /\ UNCHANGED <<sessions, nextSid, messages, nextBid, now, pc, call>>

\* BriefRepository.update(brief): commit, then refresh.  The UPDATE carries the
\* attributes that were assigned (setattr); data and extracted_entities are
\* plain JSON columns (models.py 141-142, no mutable extension), so a dict
\* mutated in place with .update() is not written, and the refresh reloads the
\* stored value.  row is the stored row, obj the object in memory.
update(row, obj) ==
  [obj EXCEPT !.data = row.data, !.extracted_entities = row.extracted_entities]

\* BriefRepository.update_status
brief_update_status(b, status) ==
  /\ IF b \in DOMAIN briefs
       THEN briefs' = [briefs EXCEPT ![b] = update(@, WithStatus(@, status))]
       ELSE UNCHANGED briefs
  /\ last' = NoOp
  /\ UNCHANGED <<sessions, nextSid, messages, nextBid, now, pc, call>>

\* keys of a dict argument
DataKeys == {"note"}

\* BriefRepository.update_data: brief.data.update(data), then update
update_data(b, data) ==
  /\ IF b \in DOMAIN briefs
       THEN briefs' = [briefs EXCEPT ![b] =
                         update(@, [@ EXCEPT !.data = @ \cup data])]
       ELSE UNCHANGED briefs
  /\ last' = NoOp
  /\ UNCHANGED <<sessions, nextSid, messages, nextBid, now, pc, call>>

\* an entities dict: a key is absent (None) or present with a value
Areas == { None, Some(50) }

EntityKeys(entities) == { k \in DOMAIN entities : entities[k] # None }

EntityDicts ==
  { e \in [location : {None, Some("Tokyo")}, budget : {None, Some(5000)},
            rooms : {None, Some("2LDK")}, area : Areas,
            pets : {None, Some("cat")}] :
      Cardinality(EntityKeys(e)) <= MaxKeys }

\* BriefRepository.update_entities: brief.extracted_entities.update(entities)
update_entities(b, entities) ==
  /\ IF b \in DOMAIN briefs
       THEN briefs' = [briefs EXCEPT ![b] =
                         update(@, [@ EXCEPT !.extracted_entities =
                                                @ \cup EntityKeys(entities)])]
       ELSE UNCHANGED briefs
  /\ last' = NoOp
  /\ UNCHANGED <<sessions, nextSid, messages, nextBid, now, pc, call>>

Scores == {0, 50}

\* BriefRepository.update_completeness_score
update_completeness_score(b, score) ==
  /\ IF b \in DOMAIN briefs
       THEN briefs' = [briefs EXCEPT ![b] =
                         update(@, [@ EXCEPT !.completeness_score = score])]
       ELSE UNCHANGED briefs
  /\ last' = NoOp
  /\ UNCHANGED <<sessions, nextSid, messages, nextBid, now, pc, call>>

\* ----------------------------------------------------------- BriefService
\* keyword arguments of update_brief: a key that is absent or None changes
\* nothing (line 67)
BriefUpdates ==
  { u \in [location : {None, Some("Tokyo")}, budget_min : {None, Some(0)},
            budget_max : {None, Some(5000)}, rooms : {None, Some("2LDK")},
            status : {None, Some("draft")}] :
      Cardinality(EntityKeys(u)) <= MaxKeys }

Assign(old, value) == IF value # None THEN value ELSE old

\* BriefService.update_brief
update_brief(b, updates) ==
  /\ IF b \in DOMAIN briefs
       THEN LET brief == [briefs[b] EXCEPT
                            !.location = Assign(@, updates.location),
                            !.budget_min = Assign(@, updates.budget_min),
                            !.budget_max = Assign(@, updates.budget_max),
                            !.rooms = Assign(@, updates.rooms),
                            !.status = Assign(<<@>>, updates.status)[1]]
            IN  /\ briefs' = [briefs EXCEPT ![b] =
                                update(@, [brief EXCEPT !.completeness_score =
                                             calculate_completeness(brief)])]
                /\ last' = Op("update_brief", b, "ok")
       ELSE /\ UNCHANGED briefs
            /\ last' = Op("update_brief", b, "BriefNotFound")
  /\ UNCHANGED <<sessions, nextSid, messages, nextBid, now, pc, call>>

\* line 94: field_mapping, entity key -> brief field
SetIfPresent(old, entities, key) ==
  IF entities[key] # None THEN entities[key] ELSE old

\* update_from_entities whose budget entity also fills budget_min
update_from_entities_both_budgets(b, entities) ==
  /\ IF b \in DOMAIN briefs
       THEN LET brief == [briefs[b] EXCEPT
                            !.location = SetIfPresent(@, entities, "location"),
                            !.budget_min = SetIfPresent(@, entities, "budget"),
                            !.budget_max = SetIfPresent(@, entities, "budget"),
                            !.rooms = SetIfPresent(@, entities, "rooms"),
                            !.area_min = SetIfPresent(@, entities, "area"),
                            !.extracted_entities = @ \cup EntityKeys(entities)]
            IN  /\ briefs' = [briefs EXCEPT ![b] =
                                update(@, [brief EXCEPT !.completeness_score =
                                             calculate_completeness(brief)])]
                /\ last' = [Op("update_from_entities", b, "ok") EXCEPT
                              !.entities = entities]
       ELSE /\ UNCHANGED briefs
            /\ last' = Op("update_from_entities", b, "BriefNotFound")
  /\ UNCHANGED <<sessions, nextSid, messages, nextBid, now, pc, call>>

\* BriefService.update_from_entities
update_from_entities(b, entities) ==
  /\ IF b \in DOMAIN briefs
       THEN LET brief == [briefs[b] EXCEPT
                            !.location = SetIfPresent(@, entities, "location"),
                            !.budget_max = SetIfPresent(@, entities, "budget"),
                            !.rooms = SetIfPresent(@, entities, "rooms"),
                            !.area_min = SetIfPresent(@, entities, "area"),
                            !.extracted_entities = @ \cup EntityKeys(entities)]
            IN  /\ briefs' = [briefs EXCEPT ![b] =
                                update(@, [brief EXCEPT !.completeness_score =
                                             calculate_completeness(brief)])]
                /\ last' = [Op("update_from_entities", b, "ok") EXCEPT
                              !.entities = entities]
       ELSE /\ UNCHANGED briefs
            /\ last' = Op("update_from_entities", b, "BriefNotFound")
  /\ UNCHANGED <<sessions, nextSid, messages, nextBid, now, pc, call>>

\* ------------------------------------------------------ MessageRepository
Message(s, role, content, c) ==
  [session_id |-> s, role |-> role, content |-> content, call |-> c]

Reverse(q) == [i \in 1..Len(q) |-> q[Len(q) + 1 - i]]

\* ORDER BY created_at ASC OFFSET offset [LIMIT limit]
get_by_session(s, limit, offset) ==
  LET asc == MessagesOf(s)
      rest == SubSeq(asc, offset + 1, Len(asc))
  IN  IF limit = None THEN rest ELSE SubSeq(rest, 1, Min(limit[1], Len(rest)))

\* get_recent_messages taking the oldest rows: ascending order, no reversal
get_recent_messages_oldest(s, count) ==
  SubSeq(MessagesOf(s), 1, Min(count, Len(MessagesOf(s))))

\* ORDER BY created_at DESC LIMIT count, then reversed
get_recent_messages(s, count) ==
  LET desc == Reverse(MessagesOf(s))
  IN  Reverse(SubSeq(desc, 1, Min(count, Len(desc))))

\* ---------------------------------------------------------- SafetyService
\* Texts of the turn pipeline: "blocked" is a word matching one of the
\* blocked patterns (spam), "loc" a place name matching location_ja.
PipelineChunks == { <<"sp", 1>>, <<"blocked", 4>>, <<"loc", 2>> }

PipelineTexts == SeqsUpTo(PipelineChunks, MaxChunks)

LongText == << <<"w", 1000>>, <<"sp", 10000>> >>

Contains(t, kind) == \E i \in 1..Len(t) : t[i][1] = kind

\* filter_content: the reason the text is unsafe, or None
filter_content(t) ==
  IF Contains(t, "blocked") THEN Some("inappropriate_content")
  ELSE IF TextLen(t) > filter_max_length THEN Some("text_too_long")
  ELSE None

\* validate_message raises ContentFilterError on unsafe text; otherwise it
\* returns the text with PII masked.  It reads and writes no stored state.
validate_message(t) ==
  /\ last' = IF filter_content(t) # None
               THEN [Op("validate_message", 0, "ContentFilterError") EXCEPT
                       !.details = filter_content(t)]
               ELSE Op("validate_message", 0, "ok")
  /\ UNCHANGED <<sessions, nextSid, messages, briefs, nextBid, now, pc, call>>

\* mask_pii works on a text of tokens separated by plain words; each token
\* stands for the string it names.
PiiTokens == { "hello", "user@example.com", "03-1234-5678", "+81 3 1234 5678",
               "4111-1111-1111-1111" }

PiiTexts == SeqsUpTo(PiiTokens, MaxPiiTokens)

\* re.sub(pii_patterns[name], placeholder, token): what the pattern leaves of
\* each token.  phone_jp needs a leading 0; phone_intl matches any run of
\* four or more digits with optional separators, so it matches twice inside
\* a grouped 16-digit card number.
Sub(name, token) ==
  CASE name = "email" /\ token = "user@example.com" -> "[EMAIL]"
    [] name = "phone_jp" /\ token = "03-1234-5678" -> "[PHONE]"
    [] name = "phone_intl" /\ token \in {"03-1234-5678", "+81 3 1234 5678"}
         -> "[PHONE]"
    [] name = "phone_intl" /\ token = "4111-1111-1111-1111" -> "[PHONE]-[PHONE]"
    [] name = "credit_card" /\ token = "4111-1111-1111-1111" -> "[CREDIT_CARD]"
    [] OTHER -> token

\* re.search(pii_patterns[name], text)
Occurs(name, t) == \E i \in 1..Len(t) : Sub(name, t[i]) # t[i]

\* re.sub(pii_patterns[name], placeholder, text)
SubAll(name, t) == [i \in 1..Len(t) |-> Sub(name, t[i])]

\* one "if re.search: re.sub; detected_pii.append" block of mask_pii
MaskStep(st, name, class) ==
  IF Occurs(name, st.masked_text)
    THEN [masked_text |-> SubAll(name, st.masked_text),
          detected_pii |-> IF \E i \in 1..Len(st.detected_pii) :
                                 st.detected_pii[i] = class
                             THEN st.detected_pii
                             ELSE Append(st.detected_pii, class)]
    ELSE st

\* mask_pii trying the credit-card pattern before the phone patterns
mask_pii_card_first(t) ==
  LET s0 == [masked_text |-> t, detected_pii |-> << >>]
      s1 == MaskStep(s0, "email", "email")
      s2 == MaskStep(s1, "credit_card", "credit_card")
      s3 == MaskStep(s2, "phone_jp", "phone")
  IN  MaskStep(s3, "phone_intl", "phone")

\* lines 66-114: email, phone_jp, phone_intl, credit_card, in this order,
\* each on the text the earlier ones left
mask_pii(t) ==
  LET s0 == [masked_text |-> t, detected_pii |-> << >>]
      s1 == MaskStep(s0, "email", "email")
      s2 == MaskStep(s1, "phone_jp", "phone")
      s3 == MaskStep(s2, "phone_intl", "phone")
  IN  MaskStep(s3, "credit_card", "credit_card")

\* a call of mask_pii; it reads and writes no stored state
mask_pii_call(t) ==
  /\ last' = [Op("mask_pii", 0, "ok") EXCEPT
                !.text = t, !.masked = mask_pii(t).masked_text,
                !.details = mask_pii(t).detected_pii]
  /\ UNCHANGED <<sessions, nextSid, messages, briefs, nextBid, now, pc, call>>

\* ------------------------------------------------------------- NLUService
\* intent_patterns in declaration (dict) order
IntentOrder == << "greeting", "property_search_buy", "property_search_rent",
                  "property_search_sell", "location_query", "budget_query",
                  "confirmation", "negation" >>

Intents == { IntentOrder[i] : i \in 1..Len(IntentOrder) }

\* list.sort(key=confidence, reverse=True): stable, equal keys keep their order
RECURSIVE InsertByConfidence(_, _)
InsertByConfidence(sorted, x) ==
  IF sorted = << >> THEN << x >>
  ELSE IF sorted[Len(sorted)][2] >= x[2] THEN Append(sorted, x)
  ELSE Append(InsertByConfidence(SubSeq(sorted, 1, Len(sorted) - 1), x),
              sorted[Len(sorted)])

RECURSIVE SortByConfidence(_)
SortByConfidence(q) ==
  IF q = << >> THEN << >>
  ELSE InsertByConfidence(SortByConfidence(SubSeq(q, 1, Len(q) - 1)), q[Len(q)])

\* matched_intents: one (intent, 0.8) pair per intent with a matching
\* pattern, in declaration order; matching is the set of those intents
matched_intents(matching) ==
  LET hits == SelectSeq(IntentOrder, LAMBDA i : i \in matching)
  IN  [k \in 1..Len(hits) |-> << hits[k], pattern_confidence >>]

\* _detect_intent returning the last matched intent
detect_intent_last(matching) ==
  IF matched_intents(matching) = << >> THEN << None, 0 >>
  ELSE LET sorted == SortByConfidence(matched_intents(matching))
       IN  << Some(sorted[Len(sorted)][1]), sorted[Len(sorted)][2] >>

\* _detect_intent: <<intent, confidence in tenths>>
detect_intent(matching) ==
  IF matched_intents(matching) = << >> THEN << None, 0 >>
  ELSE LET best == Head(SortByConfidence(matched_intents(matching)))
       IN  << Some(best[1]), best[2] >>

\* Texts of analyze: "loc" a place name, "rooms" the token 2LDK,
\* "amount_man" the token 5000万円, "area" the token 50㎡.
NluChunks == { <<"loc", 2>>, <<"rooms", 4>>, <<"amount_man", 6>>, <<"area", 3>> }

NluTexts == SeqsUpTo(NluChunks, MaxNluChunks)

\* the digits a token starts with
HasNumeral(ch) == ch[1] \in {"rooms", "amount_man", "area"}

Numeral(ch) ==
  CASE ch[1] = "rooms" -> 2
    [] ch[1] = "amount_man" -> 5000
    [] ch[1] = "area" -> 50

\* _extract_entities: the budget pattern's unit is optional, so re.search
\* takes the first numeral of the text; the value is multiplied when the
\* text holds the character man anywhere.
extract_entities(t) ==
  LET numerals == SelectSeq(t, HasNumeral)
  IN  [location |-> IF Contains(t, "loc") THEN Some("Tokyo") ELSE None,
       budget |-> IF numerals = << >> THEN None
                  ELSE Some(Numeral(Head(numerals))
                              * (IF Contains(t, "amount_man")
                                   THEN man_factor ELSE 1)),
       rooms |-> IF Contains(t, "rooms") THEN Some("2LDK") ELSE None,
       area |-> IF Contains(t, "area") THEN Some(50) ELSE None,
       pets |-> None]

\* analyze(text): matching is the set of intents with a pattern in the text
analyze(matching, t) ==
  /\ last' = [Op("analyze", 0, "ok") EXCEPT
                !.matching = matching, !.text = t,
                !.intent = detect_intent(matching)[1],
                !.confidence = detect_intent(matching)[2],
                !.entities = extract_entities(t)]
  /\ UNCHANGED <<sessions, nextSid, messages, briefs, nextBid, now, pc, call>>

\* ---------------------------------------------------- ConversationService
Responses == { <<"reply">> }

\* line 87: the status check of send_message, as get_session (line 62) does it
accepts_turns_unless_expired(session) == session.status # "expired"

\* the status check also looking at expires_at
accepts_turns_until_expiry(session) ==
  session.status = "active" /\ session.expires_at >= now

\* line 87: session.status != SessionStatus.ACTIVE raises SessionExpiredError
accepts_turns(session) == session.status = "active"

\* get_session treating every non-active status like expired
raises_expired_unless_active(session) == session.status # "active"

\* line 62: session.status == SessionStatus.EXPIRED raises SessionExpiredError
raises_expired(session) == session.status = "expired"

\* lines 55-73: get_session reads the session row and writes nothing
get_session(s) ==
  /\ last' = Op("get_session", s,
                IF ~Exists(s) THEN "SessionNotFound"
                ELSE IF raises_expired(sessions[s]) THEN "SessionExpired"
                ELSE "ok")
  /\ UNCHANGED <<sessions, nextSid, messages, briefs, nextBid, now, pc, call>>

\* lines 82-106: session lookup, status check, normalisation and validation
send_message_begin(c, s, message) ==
  /\ MayStart(c)
  /\ IF ~Exists(s)
       THEN Return("send_message", s, "SessionNotFound")
     ELSE IF ~accepts_turns(sessions[s])
       THEN Return("send_message", s, "SessionExpired")
     ELSE IF ~is_valid_text(normalize_text(message))
       THEN Return("send_message", s, "InvalidMessage")
     ELSE /\ pc' = [pc EXCEPT ![c] = "save_user"]
          /\ call' = [call EXCEPT ![c] =
                        [NoCall EXCEPT !.op = "send_message", !.session_id = s,
                                       !.text = normalize_text(message)]]
          /\ last' = Op("send_message", s, "accepted")
  /\ UNCHANGED <<sessions, nextSid, messages, briefs, nextBid, now>>

\* lines 108-117: message_repo.create(role="user"); the INSERT fails on the
\* foreign key when the session row is gone
send_message_save_user(c) ==
  /\ pc[c] = "save_user"
  /\ LET s == call[c].session_id IN
       IF Exists(s)
         THEN /\ messages' = Append(messages, Message(s, "user", call[c].text, c))
              /\ Goto(c, "history", call[c])
         ELSE /\ UNCHANGED messages
              /\ End(c, "send_message", s, "IntegrityError")
  /\ UNCHANGED <<sessions, nextSid, briefs, nextBid, now>>

\* lines 119-135: get_recent_messages, then the response generator, which
\* returns a response or raises (LLMError).  The history the generator gets
\* is get_recent_messages(session_id, HistoryCount) in the state before this
\* step; the generator's reply does not depend on it.
send_message_generate(c) ==
  /\ pc[c] = "history"
  /\ \/ \E r \in Responses :
          Goto(c, "save_assistant", [call[c] EXCEPT !.response = r])
     \/ End(c, "send_message", call[c].session_id, "LLMError")
  /\ UNCHANGED <<sessions, nextSid, messages, briefs, nextBid, now>>

\* lines 137-143: message_repo.create(role="assistant")
send_message_save_assistant(c) ==
  /\ pc[c] = "save_assistant"
  /\ LET s == call[c].session_id IN
       IF Exists(s)
         THEN /\ messages' = Append(messages,
                                    Message(s, "assistant", call[c].response, c))
              /\ Goto(c, "turn_read", call[c])
         ELSE /\ UNCHANGED messages
              /\ End(c, "send_message", s, "IntegrityError")
  /\ UNCHANGED <<sessions, nextSid, briefs, nextBid, now>>

\* lines 145-146: session_repo.increment_turn_count, first half
send_message_increment(c) ==
  /\ pc[c] = "turn_read"
  /\ IncrementTurnRead(c, call[c].session_id, "send_message")
  /\ UNCHANGED <<sessions, nextSid, messages, briefs, nextBid, now>>

\* ------------------------------------------------------------------ clock
Tick ==
  /\ now < MaxTime
  /\ now' = now + 1
  /\ last' = NoOp
  /\ UNCHANGED <<sessions, nextSid, messages, briefs, nextBid, pc, call>>

\* the conversation service over the session and message repositories
Next ==
  \/ \E t \in 1..MaxTimeout : create(t)
  \/ \E s \in Sids, st \in SessionStatus : update_status(s, st)
  \/ \E s \in Sids : delete(s)
  \/ cleanup_expired_sessions
  \/ \E c \in Calls : increment_turn_count_commit(c)
  \/ \E c \in Calls, s \in Sids, m \in Texts : send_message_begin(c, s, m)
  \/ \E c \in Calls : send_message_save_user(c)
  \/ \E c \in Calls : send_message_generate(c)
  \/ \E c \in Calls : send_message_save_assistant(c)
  \/ \E c \in Calls : send_message_increment(c)
  \/ Tick

Spec == Init /\ [][Next]_vars

\* sessions with their messages and briefs: creation, turns, expiry, deletion
NextOwnership ==
  \/ \E t \in 1..MaxTimeout : create(t)
  \/ \E s \in Sids : create_brief(s, NoFields)
  \/ \E s \in Sids : delete(s)
  \/ cleanup_expired_sessions
  \/ \E c \in Calls, s \in Sids, m \in Texts : send_message_begin(c, s, m)
  \/ \E c \in Calls : send_message_save_user(c)
  \/ \E c \in Calls : send_message_generate(c)
  \/ \E c \in Calls : send_message_save_assistant(c)
  \/ \E c \in Calls : send_message_increment(c)
  \/ \E c \in Calls : increment_turn_count_commit(c)
  \/ Tick

SpecOwnership == Init /\ [][NextOwnership]_vars

\* the session repository's counters, called directly and from turns
NextCounters ==
  \/ \E t \in 1..MaxTimeout : create(t)
  \/ \E c \in Calls, s \in Sids : increment_turn_count_begin(c, s)
  \/ \E c \in Calls : increment_turn_count_commit(c)
  \/ \E c \in Calls, s \in Sids, n \in 1..MaxTokens :
       increment_token_count_begin(c, s, n)
  \/ \E c \in Calls : increment_token_count_commit(c)
  \/ \E s \in Sids, st \in SessionStatus : update_status(s, st)
  \/ \E s \in Sids : get_session(s)
  \/ cleanup_expired_sessions
  \/ Tick

SpecCounters == Init /\ [][NextCounters]_vars

\* the brief service over the brief repository
NextBrief ==
  \/ \E t \in 1..MaxTimeout : create(t)
  \/ \E s \in Sids, kw \in BriefKwargs : create_brief(s, kw)
  \/ \E b \in Bids : submit_brief(b)
  \/ Tick

SpecBrief == Init /\ [][NextBrief]_vars

\* one session's brief through every operation that mutates a brief
InitialKwargs == { NoFields, [NoFields EXCEPT !.location = Some("Tokyo")] }

\* the state after the first create(MaxTimeout)
InitOneSession ==
  /\ sessions = (1 :> [status |-> "active", turn_count |-> 0, token_count |-> 0,
                       expires_at |-> MaxTimeout])
  /\ nextSid = 2
  /\ messages = << >>
  /\ briefs = << >>
  /\ nextBid = 1
  /\ now = 0
  /\ pc = [c \in Calls |-> "idle"]
  /\ call = [c \in Calls |-> NoCall]
  /\ last = NoOp

NextBriefUpdate ==
  \/ \E kw \in InitialKwargs : create_brief(1, kw)
  \/ \E b \in Bids, u \in BriefUpdates : update_brief(b, u)
  \/ \E b \in Bids, e \in EntityDicts : update_from_entities(b, e)
  \/ \E b \in Bids, k \in DOMAIN NoEntities :
       update_entities(b, [NoEntities EXCEPT ![k] = Some("cat")])
  \/ \E b \in Bids, d \in SUBSET DataKeys : update_data(b, d)
  \/ \E b \in Bids, st \in BriefStatus : brief_update_status(b, st)
  \/ \E b \in Bids, sc \in Scores : update_completeness_score(b, sc)
  \/ \E b \in Bids : submit_brief(b)
  \/ Tick

SpecBriefUpdate == InitOneSession /\ [][NextBriefUpdate]_vars

\* calculate_completeness over every combination of the four required
\* fields: session 1 exists and its brief was created with any keyword
\* arguments, then the service updates it
InitCompleteness ==
  /\ sessions = (1 :> [status |-> "active", turn_count |-> 0, token_count |-> 0,
                       expires_at |-> MaxTimeout])
  /\ nextSid = 2
  /\ messages = << >>
  /\ \E kw \in BriefKwargs : briefs = (1 :> NewBrief(1, kw))
  /\ nextBid = 2
  /\ now = 0
  /\ pc = [c \in Calls |-> "idle"]
  /\ call = [c \in Calls |-> NoCall]
  /\ last = Op("create_brief", 1, "ok")

NextCompleteness ==
  \/ \E b \in Bids, u \in BriefUpdates : update_brief(b, u)
  \/ \E b \in Bids, e \in EntityDicts : update_from_entities(b, e)

SpecCompleteness == InitCompleteness /\ [][NextCompleteness]_vars

\* a brief created empty and filled only from extracted entities, then
\* submitted
NextAccumulator ==
  \/ \E s \in Sids : create_brief(s, NoFields)
  \/ \E b \in Bids, e \in EntityDicts : update_from_entities(b, e)
  \/ \E b \in Bids : submit_brief(b)
  \/ Tick

SpecAccumulator == InitOneSession /\ [][NextAccumulator]_vars

\* the turn pipeline of spec section 4.5 around send_message: safety filter,
\* NLU entities, messages and the session's brief
NextPipeline ==
  \/ \E s \in Sids : create_brief(s, NoFields)
  \/ \E m \in PipelineTexts \cup {LongText} : validate_message(m)
  \/ \E c \in Calls, s \in Sids, m \in PipelineTexts : send_message_begin(c, s, m)
  \/ \E c \in Calls : send_message_save_user(c)
  \/ \E c \in Calls : send_message_generate(c)
  \/ \E c \in Calls : send_message_save_assistant(c)
  \/ \E c \in Calls : send_message_increment(c)
  \/ \E c \in Calls : increment_turn_count_commit(c)

SpecPipeline == InitOneSession /\ [][NextPipeline]_vars

\* the stateless text services: NLU analysis and PII masking
NextText ==
  \/ \E m \in SUBSET Intents : analyze(m, << >>)
  \/ \E t \in NluTexts : analyze({}, t)
  \/ \E t \in PiiTexts : mask_pii_call(t)

SpecText == Init /\ [][NextText]_vars

\* ================================================================= claims
Idle == \A c \in Calls : pc[c] \in {"idle", "done"}

\* a step in which call c got past the first step of send_message
Accepted(c) == pc[c] = "idle" /\ pc'[c] # "idle" /\ call'[c].op = "send_message"

\* a step in which a send_message call ended at its first step
Rejected == last'.op = "send_message" /\ pc' = pc

MessagesOfCall(c) == SelectSeq(messages, LAMBDA m : m.call = c)

\* C1: a send_message on an existing session whose status is not active
\* (expired, completed or abandoned) raises SessionExpired, creates no
\* message and leaves the session's turn_count unchanged.
C1_NonActiveRejected ==
  [][ /\ \A c \in Calls :
           Accepted(c) => /\ Exists(call'[c].session_id)
                          /\ sessions[call'[c].session_id].status = "active"
      /\ (Rejected /\ Exists(last'.id) /\ sessions[last'.id].status # "active")
           => /\ last'.ret = "SessionExpired"
              /\ messages' = messages
              /\ sessions'[last'.id].turn_count = sessions[last'.id].turn_count
    ]_vars

C1_Witness ==
  /\ last.op = "send_message" /\ last.ret = "SessionExpired"
  /\ Exists(last.id)
  /\ sessions[last.id].status = "completed"
  /\ sessions[last.id].turn_count > 0
  /\ Len(MessagesOf(last.id)) > 0

\* C2: a send_message that fails a precondition (unknown session, non-active
\* session, or a message that is empty, whitespace-only or longer than 1000
\* characters after normalisation) leaves the messages and every session's
\* status, turn_count and token_count as they were; only a call on an
\* existing active session with a valid normalised message gets further.
C2_RejectedChangesNothing ==
  [][ /\ Rejected =>
           /\ last'.ret \in {"SessionNotFound", "SessionExpired", "InvalidMessage"}
           /\ (last'.ret = "SessionNotFound") = ~Exists(last'.id)
           /\ messages' = messages
           /\ sessions' = sessions
           /\ briefs' = briefs
      /\ \A c \in Calls :
           Accepted(c) => /\ call'[c].text # << >>
                          /\ ~IsSpace(Head(call'[c].text))
                          /\ TextLen(call'[c].text) <= max_length
                          /\ messages' = messages /\ sessions' = sessions
    ]_vars

C2_Witness ==
  /\ last.op = "send_message" /\ last.ret = "InvalidMessage"
  /\ Exists(last.id)
  /\ sessions[last.id].status = "active"
  /\ sessions[last.id].turn_count > 0
  /\ Len(messages) > 0

\* C3: a send_message call that returns successfully has appended exactly two
\* messages to the session, the user message (normalised text) before the
\* assistant message (the response), and its turn_count update raises the
\* session's turn_count by exactly 1.
C3_TurnWritesTwoAndIncrements ==
  [][ \A c \in Calls :
        ( /\ pc[c] = "turn_write" /\ pc'[c] = "done"
          /\ call[c].op = "send_message" /\ call'[c].result = "ok" )
        => LET s == call[c].session_id IN
           /\ Len(MessagesOfCall(c)) = 2
           /\ MessagesOfCall(c)[1].role = "user"
           /\ MessagesOfCall(c)[1].content = call[c].text
           /\ MessagesOfCall(c)[2].role = "assistant"
           /\ MessagesOfCall(c)[2].content = call[c].response
           /\ MessagesOfCall(c)[1].session_id = s
           /\ MessagesOfCall(c)[2].session_id = s
           /\ sessions'[s].turn_count = sessions[s].turn_count + 1
    ]_vars

\* C4: whenever no turn is in progress, a session's turn_count equals the
\* number of send_message calls on it that completed successfully.
C4_TurnCountIsCompletedTurns ==
  Idle => \A s \in DOMAIN sessions :
            sessions[s].turn_count =
              Cardinality({ c \in Calls : /\ pc[c] = "done"
                                          /\ call[c].op = "send_message"
                                          /\ call[c].result = "ok"
                                          /\ call[c].session_id = s })

\* C5: a session's turn_count and token_count never decrease.
C5_CountersMonotone ==
  [][ \A s \in DOMAIN sessions \cap DOMAIN sessions' :
        /\ sessions'[s].turn_count >= sessions[s].turn_count
        /\ sessions'[s].token_count >= sessions[s].token_count
    ]_vars

\* C6: when a send_message call has ended, by returning or by raising, every
\* user message it persisted is paired with an assistant message it persisted.
C6_NoHalfWrittenTurn ==
  \A c \in Calls :
    (pc[c] = "done" /\ call[c].op = "send_message")
      => \A i \in 1..Len(messages) :
           (messages[i].call = c /\ messages[i].role = "user")
             => \E j \in 1..Len(messages) :
                  messages[j].call = c /\ messages[j].role = "assistant"

C8_TerminalStatus ==
  [][ \A s \in DOMAIN sessions \cap DOMAIN sessions' :
        sessions[s].status # "active" => sessions'[s].status # "active"
    ]_vars

MissingItems(brief) ==
     (IF brief.location = None THEN << "Location is required" >> ELSE << >>)
  \o (IF brief.budget_min = None /\ brief.budget_max = None
        THEN << "Budget is required" >> ELSE << >>)
  \o (IF brief.rooms = None
        THEN << "Room configuration is required" >> ELSE << >>)

C10_SubmitGating ==
  [][ (last'.op = "submit_brief" /\ last'.id \in DOMAIN briefs) =>
        IF MissingItems(briefs[last'.id]) # << >>
          THEN /\ last'.ret = "ValidationError"
               /\ last'.details = MissingItems(briefs[last'.id])
          ELSE /\ last'.ret = "ok"
               /\ briefs'[last'.id].status = "submitted"
    ]_vars

\* C11: a submit_brief that fails with BriefNotFound or ValidationError leaves
\* every brief, with its status, submitted_at, lead_score, completeness_score
\* and typed fields, as it was before the call.
C11_FailedSubmitChangesNothing ==
  [][ (last'.op = "submit_brief"
         /\ last'.ret \in {"BriefNotFound", "ValidationError"})
        => briefs' = briefs
    ]_vars

C11_Witness ==
  /\ last.op = "submit_brief" /\ last.ret = "ValidationError"
  /\ last.id \in DOMAIN briefs
  /\ briefs[last.id].location = Some("Tokyo")
  /\ briefs[last.id].status = "draft"
  /\ briefs[last.id].lead_score = None

\* C12: submitted_at is set exactly once: it becomes non-null only in a step
\* that makes the brief submitted for the first time, and once it is set no
\* operation changes its value.
C12_SubmittedAtSetOnce ==
  [][ \A b \in DOMAIN briefs :
        /\ briefs[b].submitted_at # None
              => briefs'[b].submitted_at = briefs[b].submitted_at
        /\ (briefs[b].submitted_at = None /\ briefs'[b].submitted_at # None)
              => briefs[b].status # "submitted" /\ briefs'[b].status = "submitted"
    ]_vars

\* C13: once a brief's status is submitted, no operation changes it to draft,
\* in_progress or completed.
C13_SubmittedNeverRegresses ==
  [][ \A b \in DOMAIN briefs :
        briefs[b].status = "submitted" => briefs'[b].status = "submitted"
    ]_vars

RequiredFields == {"location", "budget_min", "budget_max", "rooms"}

RequiredFilled(brief) == Cardinality({ f \in RequiredFields : brief[f] # None })

\* C14: in every reachable state each brief's stored completeness_score is 25
\* times the number of non-null fields among location, budget_min, budget_max
\* and rooms.
C14_CompletenessNeverStale ==
  \A b \in DOMAIN briefs :
    briefs[b].completeness_score = 25 * RequiredFilled(briefs[b])

\* C15: in every reachable state no two briefs have the same session_id.
C15_OneBriefPerSession ==
  \A b1, b2 \in DOMAIN briefs :
    b1 # b2 => briefs[b1].session_id # briefs[b2].session_id

C15_Witness ==
  /\ last.op = "create_brief" /\ last.ret = "IntegrityError"
  /\ DOMAIN sessions = Sids
  /\ DOMAIN briefs # {}

\* C19: update_from_entities sets location, budget_max, rooms and area_min
\* from the entity keys location, budget, rooms and area when they are
\* present and leaves them alone otherwise; it never changes budget_min,
\* area_max, status, submitted_at, lead_score or data; it records every
\* entity key in extracted_entities, keeping the keys recorded before; and it
\* stores the recomputed completeness_score.
C19_UpdateFromEntitiesFrame ==
  [][ (last'.op = "update_from_entities" /\ last'.ret = "ok") =>
        LET e == last'.entities
            old == briefs[last'.id]
            new == briefs'[last'.id]
        IN  /\ new.location = IF e.location # None THEN e.location ELSE old.location
            /\ new.budget_max = IF e.budget # None THEN e.budget ELSE old.budget_max
            /\ new.rooms = IF e.rooms # None THEN e.rooms ELSE old.rooms
            /\ new.area_min = IF e.area # None THEN e.area ELSE old.area_min
            /\ new.budget_min = old.budget_min /\ new.area_max = old.area_max
            /\ new.status = old.status /\ new.submitted_at = old.submitted_at
            /\ new.lead_score = old.lead_score /\ new.data = old.data
            /\ (old.extracted_entities \cup EntityKeys(e))
                  \subseteq new.extracted_entities
            /\ new.completeness_score = 25 * RequiredFilled(new)
    ]_vars

\* C20: calculate_completeness returns 100 * (non-null fields among location,
\* budget_min, budget_max, rooms) / 4: 0 for none, 50 for two, 75 for three,
\* 100 for all four, and filling one more required field never lowers it.
C20_CompletenessFunction ==
  [][ (last'.op \in {"update_brief", "update_from_entities"} /\ last'.ret = "ok")
        => LET brief == briefs'[last'.id]
               n == RequiredFilled(brief)
           IN  /\ brief.completeness_score = calculate_completeness(brief)
               /\ calculate_completeness(brief) * 4 = n * 100
               /\ n = 0 => calculate_completeness(brief) = 0
               /\ n = 2 => calculate_completeness(brief) = 50
               /\ n = 3 => calculate_completeness(brief) = 75
               /\ n = 4 => calculate_completeness(brief) = 100
               /\ \A f \in RequiredFields :
                    brief[f] = None =>
                      LET v == IF f \in {"location", "rooms"}
                                 THEN Some("") ELSE Some(0)
                      IN  calculate_completeness([brief EXCEPT ![f] = v])
                            >= calculate_completeness(brief)
    ]_vars

C20_Witness ==
  /\ last.op = "update_brief" /\ last.ret = "ok"
  /\ briefs[last.id].budget_min = Some(0)
  /\ RequiredFilled(briefs[last.id]) = 2
  /\ briefs[last.id].completeness_score = 50

\* C16: no turn gets past its first step, and so none stores a message, with
\* a text that the safety filter reports unsafe (a blocked pattern or more
\* than 10,000 characters); such a call ends with ContentFilterError.
C16_UnsafeNeverStored ==
  /\ [](\A i \in 1..Len(messages) :
          messages[i].role = "user" => filter_content(messages[i].content) = None)
  /\ [][ \A c \in Calls : Accepted(c) => filter_content(call'[c].text) = None
       ]_vars

\* C17: when a send_message whose text yields entities returns successfully
\* and the session has a brief, that brief holds the entities (typed field
\* and extracted_entities) and a recomputed completeness_score.
C17_TurnFeedsBrief ==
  [][ \A c \in Calls :
        ( /\ pc[c] = "turn_write" /\ pc'[c] = "done"
          /\ call[c].op = "send_message" /\ call'[c].result = "ok"
          /\ EntityKeys(extract_entities(call[c].text)) # {} )
        => \A b \in BriefsOf(call[c].session_id) :
             /\ briefs'[b].location = extract_entities(call[c].text).location
             /\ EntityKeys(extract_entities(call[c].text))
                   \subseteq briefs'[b].extracted_entities
             /\ briefs'[b].completeness_score = 25 * RequiredFilled(briefs'[b])
    ]_vars

\* C18: the history a turn hands to the response generator holds, in
\* chronological order, both messages of every turn on the session that has
\* completed, and ends with this turn's own user message, also when turns on
\* the session interleave.
C18_HistoryReflectsEarlierTurns ==
  [][ \A c \in Calls :
        ( /\ pc[c] = "history" /\ pc'[c] # "history"
          /\ Exists(call[c].session_id) )
        => LET s == call[c].session_id
               h == get_recent_messages(s, HistoryCount)
           IN  /\ h # << >>
               /\ h[Len(h)].call = c /\ h[Len(h)].role = "user"
               /\ \A d \in Calls :
                    ( /\ pc[d] = "done" /\ call[d].op = "send_message"
                      /\ call[d].result = "ok" /\ call[d].session_id = s
                      /\ Len(MessagesOf(s)) <= HistoryCount )
                    => \E i, j \in 1..Len(h) :
                         /\ i < j
                         /\ h[i].call = d /\ h[i].role = "user"
                         /\ h[j].call = d /\ h[j].role = "assistant"
    ]_vars

Present(x) == x # None

\* the lead score as the claim states it, with presence meaning non-null
ExpectedLeadScore(brief) ==
  Min(100, (brief.completeness_score * 4) \div 10
             + (IF Present(brief.budget_min) /\ Present(brief.budget_max)
                  THEN 20 ELSE 0)
             + (IF Present(brief.location) THEN 20 ELSE 0)
             + (IF Present(brief.rooms) THEN 10 ELSE 0)
             + (IF Present(brief.area_min) \/ Present(brief.area_max)
                  THEN 10 ELSE 0))

\* C21: a successful submit_brief stores a non-null lead_score equal to
\* min(100, 0.4 * completeness_score + 20 if budget_min and budget_max are
\* both present + 20 if location is present + 10 if rooms is present + 10 if
\* area_min or area_max is present), within 0..100; a brief that was never
\* submitted has lead_score null.
C21_LeadScoreFormula ==
  /\ [](\A b \in DOMAIN briefs :
          /\ briefs[b].submitted_at = None => briefs[b].lead_score = None
          /\ briefs[b].lead_score # None
                => briefs[b].lead_score[1] \in 0..100)
  /\ [][ (last'.op = "submit_brief" /\ last'.ret = "ok")
           => briefs'[last'.id].lead_score
                = Some(ExpectedLeadScore(briefs[last'.id]))
       ]_vars

\* C29: a brief created empty and changed only through update_from_entities
\* never has budget_min set, its completeness_score never exceeds 75, and a
\* submission never earns the bonus for having both budget bounds (its
\* lead_score is at most 30 + 20 + 10 + 10).
C29_EntitiesNeverFillBudgetMin ==
  \A b \in DOMAIN briefs :
    /\ briefs[b].budget_min = None
    /\ briefs[b].completeness_score <= 75
    /\ ~(TruthyNum(briefs[b].budget_min) /\ TruthyNum(briefs[b].budget_max))
    /\ briefs[b].lead_score # None => briefs[b].lead_score[1] <= 70

C29_Witness ==
  \E b \in DOMAIN briefs :
    /\ briefs[b].budget_max # None
    /\ briefs[b].completeness_score = 75
    /\ briefs[b].status = "submitted"
    /\ briefs[b].lead_score = Some(70)

\* C30: a field that calculate_completeness counts as filled is not reported
\* missing by submit_brief's validation, so a brief whose completeness is
\* 100 always passes submit_brief.
C30_PresenceConsistent ==
  [][ (last'.op = "submit_brief" /\ last'.id \in DOMAIN briefs) =>
        LET brief == briefs[last'.id]
            reported == { last'.details[i] : i \in 1..Len(last'.details) }
        IN  /\ brief.location # None => "Location is required" \notin reported
            /\ (brief.budget_min # None \/ brief.budget_max # None)
                  => "Budget is required" \notin reported
            /\ brief.rooms # None
                  => "Room configuration is required" \notin reported
            /\ calculate_completeness(brief) = 100 => last'.ret = "ok"
    ]_vars

C26_WritesOnlyIntoActive ==
  [][ Len(messages') > Len(messages) =>
        LET m == messages'[Len(messages')]
        IN  Exists(m.session_id) /\ sessions[m.session_id].status = "active"
    ]_vars

\* C27: send_message decides acceptance from the status alone: on an
\* existing session it raises SessionExpired exactly when the status is not
\* active, so an active session whose expires_at is in the past still
\* accepts a valid message.
C27_AcceptanceIgnoresExpiry ==
  [][ /\ (last'.op = "send_message" /\ Rejected /\ Exists(last'.id))
           => (last'.ret = "SessionExpired")
                = (sessions[last'.id].status # "active")
      /\ \A c \in Calls :
           Accepted(c) => /\ last'.ret = "accepted"
                          /\ sessions[last'.id].status = "active"
    ]_vars

C27_Witness ==
  /\ last.op = "send_message" /\ last.ret = "accepted"
  /\ sessions[last.id].status = "active"
  /\ sessions[last.id].expires_at < now

\* C28: get_session raises SessionNotFound exactly for an unknown id and
\* SessionExpired exactly for an existing session with status expired; a
\* completed or abandoned session, which send_message rejects, is returned
\* normally; get_session changes no state.
C28_GetSession ==
  [][ last'.op = "get_session" =>
        LET s == last'.id IN
        /\ (last'.ret = "SessionNotFound") = ~Exists(s)
        /\ (last'.ret = "SessionExpired")
             = (Exists(s) /\ sessions[s].status = "expired")
        /\ (Exists(s) /\ sessions[s].status \in {"completed", "abandoned"})
             => last'.ret = "ok" /\ ~accepts_turns(sessions[s])
        /\ UNCHANGED <<sessions, nextSid, messages, briefs, nextBid, now, pc, call>>
    ]_vars

C28_Witness ==
  /\ last.op = "get_session" /\ last.ret = "ok"
  /\ sessions[last.id].status = "completed"
  /\ sessions[last.id].turn_count > 0

\* the first intent in declaration order that is in the set
FirstDeclared(matching) ==
  IntentOrder[CHOOSE i \in 1..Len(IntentOrder) :
                /\ IntentOrder[i] \in matching
                /\ \A j \in 1..(i - 1) : IntentOrder[j] \notin matching]

\* C22: for every set of simultaneously matching intents, intent detection
\* returns the first of them in declaration order with confidence 0.8; with
\* no match it returns intent None with confidence 0.0; no other confidence
\* is produced.
C22_FirstDeclaredIntentWins ==
  [][ last'.op = "analyze" =>
        /\ last'.confidence \in {0, pattern_confidence}
        /\ IF last'.matching = {}
             THEN last'.intent = None /\ last'.confidence = 0
             ELSE /\ last'.intent = Some(FirstDeclared(last'.matching))
                  /\ last'.confidence = pattern_confidence
    ]_vars

C22_Witness ==
  /\ last.op = "analyze"
  /\ last.matching = {"negation", "budget_query", "property_search_rent"}
  /\ last.intent = Some("property_search_rent")
  /\ last.confidence = pattern_confidence

\* C23: analyze takes the budget from the numeral that carries the currency
\* unit wherever other numerals occur: a text with the amount 5000 man-yen
\* yields budget 50000000, together with rooms 2LDK when it has a rooms
\* token and the location when it has a place name.
C23_BudgetFromAmount ==
  [][ (last'.op = "analyze" /\ Contains(last'.text, "amount_man")) =>
        /\ last'.entities.budget = Some(5000 * man_factor)
        /\ Contains(last'.text, "rooms") => last'.entities.rooms = Some("2LDK")
        /\ Contains(last'.text, "loc") => last'.entities.location = Some("Tokyo")
    ]_vars

PiiPatterns == { <<"email", "email">>, <<"phone_jp", "phone">>,
                 <<"phone_intl", "phone">>, <<"credit_card", "credit_card">> }

\* C24: detected_pii holds exactly the classes whose pattern occurs in the
\* original text, each once, and a text with a grouped 16-digit card number
\* yields credit_card in detected_pii and [CREDIT_CARD] in the masked text.
C24_MaskPiiIndependent ==
  [][ last'.op = "mask_pii" =>
        LET detected == last'.details
            masked == last'.masked
        IN  /\ { detected[i] : i \in 1..Len(detected) }
                 = { p[2] : p \in { q \in PiiPatterns : Occurs(q[1], last'.text) } }
            /\ \A i, j \in 1..Len(detected) : detected[i] = detected[j] => i = j
            /\ \A i \in 1..Len(last'.text) :
                 last'.text[i] = "4111-1111-1111-1111"
                   => masked[i] = "[CREDIT_CARD]"
    ]_vars

====
